---- MODULE Spec2Model ----
(***************************************************************************)
(* Model of kitzy/autopkg-runner: the FleetGitOpsUploader AutoPkg          *)
(* processor (fleet-gitops-uploader/fleetGitOpsUploader.py), the           *)
(* update_gitops.py script and the _pr_body helper of FleetImporter.       *)
(*                                                                         *)
(* Eight specifications share this module:                                 *)
(*   SpecTeam   the two ensure-operations on a team document               *)
(*   SpecPkg    the full-overwrite write of a package document             *)
(*   SpecScript ensure_pkgfile of update_gitops.py on a package document   *)
(*   SpecSlug   the two slugify functions                                  *)
(*   SpecBody   _pr_body of overrides/FleetImporter.py                     *)
(*   SpecPR     _open_pull_request against the pull-request service        *)
(*   Spec       main(): upload, clone, branch, mutate, commit, push, PR    *)
(*   SpecCommit _git_safe_commit in a repository in any state              *)
(***************************************************************************)
EXTENDS Naturals, Sequences, FiniteSets, TLC

(***************************************************************************)
(* Bounds of the model.                                                    *)
(***************************************************************************)
MaxLen == 2      \* longest software.packages list of an initial team document
MaxCalls == 2    \* ensure-operations applied to one team document
MaxWrites == 2   \* writes of one package document
MaxPrCalls == 2  \* calls of _open_pull_request
MaxRuns == 2     \* runs of main() against one remote
MaxTime == 1     \* latest second on the clock
MaxScriptCalls == 2  \* calls of ensure_pkgfile on one package document
MaxStrLen == 3   \* longest text given to slugify, in characters
MaxSlugCalls == 2    \* applications of slugify in a row
MaxSlugLen == 3  \* longest software_slug given to _pr_body, in characters

(***************************************************************************)
(* State.                                                                  *)
(***************************************************************************)
VARIABLES
    teamfile,    \* the team document on disk
    teamLast,    \* the last ensure-operation: its arguments, input and result
    teamPrev,    \* the ensure-operation before it
    ncalls       \* ensure-operations applied so far

teamVars == <<teamfile, teamLast, teamPrev, ncalls>>

VARIABLES
    pkgfile,     \* the package document on disk
    pkgArgs,     \* the arguments _write_or_update_package_yaml is called with
    pkgBefore,   \* the package document before the last write
    nwrites      \* writes so far

VARIABLES
    spkgfile,    \* the package document the script maintains
    spkgLast,    \* the last ensure_pkgfile call: arguments, input and result
    nscript      \* ensure_pkgfile calls so far

scriptVars == <<spkgfile, spkgLast, nscript>>

VARIABLES
    text,        \* the string slugify is applied to next
    slugLast,    \* the last application of slugify: function, argument, result
    slugPrev,    \* the application before it
    nslug        \* applications so far

slugVars == <<text, slugLast, slugPrev, nslug>>

VARIABLES
    bodyArgs,    \* the arguments _pr_body is called with
    bodyCalled,  \* whether _pr_body has returned
    body,        \* the string it returned
    bodyLines    \* the lines of that string

bodyVars == <<bodyArgs, bodyCalled, body, bodyLines>>

pkgVars == <<pkgfile, pkgArgs, pkgBefore, nwrites, scriptVars, slugVars, bodyVars>>

VARIABLES
    prs,         \* the pull-request service: the open pull requests
    nextNumber,  \* the number the service gives the next pull request
    prLast,      \* the last _open_pull_request call: arguments, responses, result
    prPrev,      \* the call before it
    nprcalls     \* _open_pull_request calls so far

prVars == <<prs, nextNumber, prLast, prPrev, nprcalls>>

VARIABLES
    inp,         \* the inputs of main(): self.env and the environment
    remote,      \* the git remote: the base branch and the pushed branches
    now,         \* the clock, in seconds, when it was last read
    nrun,        \* the run of main() in progress (1, 2, ...)
    pc,          \* the stage main() is about to execute, or done / failed
    ws,          \* the temporary clone: work tree, index and HEAD
    run,         \* what this run has done so far
    prev         \* the run before this one, as it ended

mainVars == <<inp, remote, now, nrun, pc, ws, run, prev>>

vars == <<teamVars, pkgVars, prVars, mainVars>>

(***************************************************************************)
(* Values.                                                                 *)
(***************************************************************************)
Slugs == {"firefox", "chrome"}

NoKey == "<no key>"          \* a mapping that lacks the key
DefaultTeamYamlPrefix == "../lib/macos/software/"
DefaultPackageYamlSuffix == ".package.yml"

\* ref_path as main() composes it (defaults of team_yaml_package_path_prefix
\* and package_yaml_suffix).
RefPath(slug) == DefaultTeamYamlPrefix \o slug \o DefaultPackageYamlSuffix

\* target as ensure_team composes it.
Target(slug) == "../lib/software/" \o slug \o ".package.yml"

(***************************************************************************)
(* Team documents.  A YAML team file is modelled by its logical content:   *)
(* whether the file exists, the shape of `software` and of                 *)
(* `software.packages` (missing key, null, or a mapping / a list), and the *)
(* list's entries.  An entry is a bare string, a mapping (with or without  *)
(* the keys path, package_path, self_service) or some other scalar.        *)
(***************************************************************************)
StrEntry(s) == [kind |-> "str", val |-> s, path |-> NoKey,
                package_path |-> NoKey, self_service |-> NoKey]
PathEntry(p) == [kind |-> "dict", val |-> "", path |-> p,
                 package_path |-> NoKey, self_service |-> NoKey]
PackagePathEntry(p, ss) == [kind |-> "dict", val |-> "", path |-> NoKey,
                            package_path |-> p, self_service |-> ss]
UrlEntry == [kind |-> "dict", val |-> "", path |-> NoKey,
             package_path |-> NoKey, self_service |-> NoKey]
OtherEntry == [kind |-> "other", val |-> "", path |-> NoKey,
               package_path |-> NoKey, self_service |-> NoKey]

PyBool(b) == IF b THEN "True" ELSE "False"

Entries ==
    {StrEntry(RefPath(s)) : s \in Slugs}
    \cup {PathEntry(RefPath(s)) : s \in Slugs}
    \cup {StrEntry(Target(s)) : s \in Slugs}
    \cup {PathEntry(Target(s)) : s \in Slugs}
    \cup {PackagePathEntry(Target(s), PyBool(b)) : s \in Slugs, b \in BOOLEAN}
    \cup {UrlEntry, OtherEntry}

SeqsUpTo(S, n) == UNION {[1..k -> S] : k \in 0..n}

TeamDoc(exists, software, packages, pkgs) ==
    [exists |-> exists, software |-> software, packages |-> packages, pkgs |-> pkgs]

MissingFile == TeamDoc(FALSE, "absent", "absent", <<>>)

\* The team files a caller can provide.
TeamDocs ==
    {MissingFile,
     TeamDoc(TRUE, "absent", "absent", <<>>),     \* empty file, or other keys only
     TeamDoc(TRUE, "null", "absent", <<>>),       \* software:
     TeamDoc(TRUE, "map", "absent", <<>>),        \* software: {}
     TeamDoc(TRUE, "map", "null", <<>>)}          \* software: {packages: }
    \cup {TeamDoc(TRUE, "map", "list", ps) : ps \in SeqsUpTo(Entries, MaxLen)}

\* _read_yaml / load_yaml: a missing or empty file reads as {}.
ReadYaml(file) == IF file.exists THEN file ELSE TeamDoc(TRUE, "absent", "absent", <<>>)

\* pkg_ref, the normalisation local to _ensure_team_yaml_has_package.
pkg_ref_nodict(p) ==
    IF p.kind = "str" THEN p.val ELSE ""
pkg_ref(p) ==
    IF p.kind = "str" THEN p.val
    ELSE IF p.kind = "dict" /\ p.path # NoKey THEN p.path
    ELSE ""

\* existing = [pkg_ref(p) for p in pkgs]
ExistingFirstOnly(pkgs) ==
    IF pkgs = <<>> THEN <<>> ELSE <<pkg_ref(pkgs[1])>>
Existing(pkgs) == [i \in 1..Len(pkgs) |-> pkg_ref(pkgs[i])]

InSeq(x, s) == \E i \in 1..Len(s) : s[i] = x

\* pkgs.append({"path": ref_path})
AppendRefFront(pkgs, ref_path) == <<PathEntry(ref_path)>> \o pkgs
AppendRef(pkgs, ref_path) == Append(pkgs, PathEntry(ref_path))

\* _ensure_team_yaml_has_package(team_yaml_path, ref_path): the file after the
\* call and the value returned.
EnsureTeamYamlHasPackage(file, ref_path) ==
    LET y == ReadYaml(file)
        pkgs == IF y.software = "map" /\ y.packages = "list" THEN y.pkgs ELSE <<>>
    IN  IF ~InSeq(ref_path, Existing(pkgs))
        THEN [file |-> TeamDoc(TRUE, "map", "list", AppendRef(pkgs, ref_path)),
              ret |-> "True", wrote |-> TRUE]
        ELSE [file |-> file, ret |-> "False", wrote |-> FALSE]

\* The for/else loop of ensure_team: the index of the first entry whose
\* package_path is the target, 0 when the loop ends without a break.  The
\* loop calls entry.get on every entry up to there.
RECURSIVE FirstMatch(_, _, _)
FirstMatch(packages, target, i) ==
    IF i > Len(packages) THEN 0
    ELSE IF packages[i].kind = "dict" /\ packages[i].package_path = target THEN i
    ELSE FirstMatch(packages, target, i + 1)

\* entry.get raises AttributeError on an entry that is no mapping.
LoopRaises(packages, m) ==
    \E i \in 1..(IF m = 0 THEN Len(packages) ELSE m) : packages[i].kind # "dict"

\* ensure_team(teamfile, slug, self_service): the file after the call and how
\* the call ended ("None": returned, "raise": an exception left the file alone).
ensure_team(file, slug, self_service) ==
    LET data == ReadYaml(file)
        target == Target(slug)
        packages == IF data.packages = "list" THEN data.pkgs ELSE <<>>
        m == FirstMatch(packages, target, 1)
    IN  IF data.software = "null" \/ data.packages = "null"
           \/ LoopRaises(packages, m)
        THEN [file |-> file, ret |-> "raise", wrote |-> FALSE]
        ELSE [file |-> TeamDoc(TRUE, "map", "list",
                        IF m = 0
                        THEN Append(packages, PackagePathEntry(target, PyBool(self_service)))
                        ELSE [packages EXCEPT ![m].self_service = PyBool(self_service)]),
              ret |-> "None", wrote |-> TRUE]

(***************************************************************************)
(* Package documents.  A package file is modelled by whether it exists and *)
(* by its top-level mapping; a mapping is a function from the keys present *)
(* to their values, so that an absent key is absent.                       *)
(***************************************************************************)
None == "<None>"             \* Python's None where a string is expected
EmptyMap == [k \in {} |-> ""]

Truthy(s) == s \notin {None, ""}

\* `if cond: pkg_block[key] = value`
Opt(cond, key, value) == IF cond THEN key :> value ELSE EmptyMap

AutomaticInstallAnyPlatform(automatic_install, platform) == automatic_install
\* `automatic_install and platform in ("darwin", "macos")`
AutomaticInstallApplies(automatic_install, platform) ==
    automatic_install /\ platform \in {"darwin", "macos"}

\* `if hash_sha256:`
HashIncluded(hash_sha256) == Truthy(hash_sha256)

\* pkg_block as _write_or_update_package_yaml composes it from its arguments.
PkgBlock(a) ==
    [name |-> a.software_title, version |-> a.version, platform |-> a.platform]
    @@ Opt(HashIncluded(a.hash_sha256), "hash_sha256", a.hash_sha256)
    @@ Opt(a.self_service, "self_service", TRUE)
    @@ Opt(a.labels_include_any # <<>>, "labels_include_any", a.labels_include_any)
    @@ Opt(a.labels_exclude_any # <<>>, "labels_exclude_any", a.labels_exclude_any)
    @@ Opt(AutomaticInstallApplies(a.automatic_install, a.platform),
           "automatic_install", TRUE)
    @@ Opt(a.pre_install_query # "", "pre_install_query", [query |-> a.pre_install_query])
    @@ Opt(a.install_script # "", "install_script", [contents |-> a.install_script])
    @@ Opt(a.uninstall_script # "", "uninstall_script", [contents |-> a.uninstall_script])
    @@ Opt(a.post_install_script # "", "post_install_script",
           [contents |-> a.post_install_script])

PkgFile(exists, data) == [exists |-> exists, data |-> data]
MissingPkgFile == PkgFile(FALSE, EmptyMap)

WriteOrUpdatePackageYamlMerge(file, a) ==
    PkgFile(TRUE, [package |-> PkgBlock(a)
                                @@ (IF file.exists /\ "package" \in DOMAIN file.data
                                    THEN file.data.package ELSE EmptyMap)])
\* _write_or_update_package_yaml: the file after the call.  What _read_yaml
\* returned is dropped: data = {"package": pkg_block}.
WriteOrUpdatePackageYaml(file, a) == PkgFile(TRUE, [package |-> PkgBlock(a)])

Platforms == {"darwin", "macos", "windows"}
LabelLists == {<<>>, <<"eng">>}
Scripts == {"", "#!/bin/sh"}

PkgArgs ==
    [software_title : {"Firefox"}, version : {"1.2.3"}, platform : Platforms,
     hash_sha256 : {None, "", "abc123"}, self_service : BOOLEAN,
     labels_include_any : LabelLists, labels_exclude_any : LabelLists,
     automatic_install : BOOLEAN, pre_install_query : {"", "SELECT 1"},
     install_script : Scripts, uninstall_script : Scripts,
     post_install_script : Scripts]

\* Package files found in a repository before the call.
PriorPkgFiles ==
    {MissingPkgFile,
     PkgFile(TRUE, EmptyMap),
     PkgFile(TRUE, [package |-> [name |-> "Firefox", version |-> "1.0",
                                 platform |-> "darwin", self_service |-> TRUE,
                                 categories |-> <<"Browsers">>]])}

InitPkg ==
    /\ pkgfile \in PriorPkgFiles
    /\ pkgArgs \in PkgArgs
    /\ pkgBefore = pkgfile
    /\ nwrites = 0

PkgIdle ==
    /\ pkgfile = MissingPkgFile
    /\ pkgArgs = CHOOSE a \in PkgArgs : TRUE
    /\ pkgBefore = MissingPkgFile
    /\ nwrites = 0

WriteOrUpdatePackageYamlCall ==
    /\ nwrites < MaxWrites
    /\ pkgfile' = WriteOrUpdatePackageYaml(pkgfile, pkgArgs)
    /\ pkgBefore' = pkgfile
    /\ nwrites' = nwrites + 1
    /\ UNCHANGED <<pkgArgs, scriptVars, slugVars, bodyVars>>
    /\ UNCHANGED <<teamVars, prVars, mainVars>>

(***************************************************************************)
(* The package document of update_gitops.py.  It is modelled by whether    *)
(* the file exists, its top-level keys other than spec, the shape of spec  *)
(* (missing key, null or a mapping) and the mapping under spec.            *)
(***************************************************************************)
SDoc(exists, top, spec, fields) ==
    [exists |-> exists, top |-> top, spec |-> spec, fields |-> fields]

MissingSDoc == SDoc(FALSE, EmptyMap, "absent", EmptyMap)

ApiHeader == [apiVersion |-> "v1", kind |-> "software"]

\* load_yaml: a missing or empty file loads as {}.
LoadYaml(file) == IF file.exists THEN file ELSE SDoc(TRUE, EmptyMap, "absent", EmptyMap)

\* `not data`
IsEmptyDoc(data) == data.top = EmptyMap /\ data.spec = "absent"

\* d.setdefault(k, v) and d[k] = v
SetDefault(m, k, v) == IF k \in DOMAIN m THEN m ELSE m @@ (k :> v)
SetKey(m, k, v) == (k :> v) @@ m

\* ensure_pkgfile(pkgfile, name, hash_value): the file after the call and how
\* the call ended ("None": returned, "raise": spec is null and
\* spec.setdefault raises, the file is left alone).
ensure_pkgfile(file, name, hash_value) ==
    LET data == LoadYaml(file)
    IN  IF IsEmptyDoc(data)
        THEN [file |-> SDoc(TRUE, ApiHeader, "map",
                            [name |-> name, platform |-> "darwin",
                             hash_sha256 |-> hash_value]),
              mode |-> "create", ret |-> "None"]
        ELSE IF data.spec = "null"
        THEN [file |-> file, mode |-> "merge", ret |-> "raise"]
        ELSE LET spec0 == IF data.spec = "absent" THEN EmptyMap ELSE data.fields
                 spec1 == SetDefault(spec0, "name", name)
                 spec2 == SetDefault(spec1, "platform", "darwin")
                 spec3 == SetKey(spec2, "hash_sha256", hash_value)
             IN  [file |-> SDoc(TRUE, data.top, "map", spec3),
                  mode |-> "merge", ret |-> "None"]

Names == {"Firefox", "Firefox ESR"}
Hashes == {"abc123", "def456"}

\* The mappings found under spec before the call: any of name, platform and
\* hash_sha256 present or not, besides a key the script does not know.
PriorSpecs ==
    {n @@ pl @@ h @@ o :
        n \in {EmptyMap, "name" :> "Firefox", "name" :> "Mozilla Firefox"},
        pl \in {EmptyMap, "platform" :> "darwin", "platform" :> "windows"},
        h \in {EmptyMap, "hash_sha256" :> "000000"},
        o \in {EmptyMap, "url" :> "https://example.com/firefox.pkg"}}

\* The package files the script can find.
PriorSDocs ==
    {MissingSDoc, SDoc(TRUE, EmptyMap, "absent", EmptyMap),
     SDoc(TRUE, ApiHeader, "absent", EmptyMap),
     SDoc(TRUE, ApiHeader, "null", EmptyMap),
     SDoc(TRUE, EmptyMap, "null", EmptyMap)}
    \cup {SDoc(TRUE, t, "map", f) : t \in {EmptyMap, ApiHeader}, f \in PriorSpecs}

NoScriptCall == [called |-> FALSE, name |-> "", hash_value |-> "", mode |-> "",
                 ret |-> "", before |-> MissingSDoc, after |-> MissingSDoc]

ScriptIdle ==
    /\ spkgfile = MissingSDoc
    /\ spkgLast = NoScriptCall
    /\ nscript = 0

InitScript ==
    /\ spkgfile \in PriorSDocs
    /\ spkgLast = NoScriptCall
    /\ nscript = 0

\* One call of ensure_pkgfile.
EnsurePkgfileCall ==
    \E name \in Names, hash_value \in Hashes :
        LET r == ensure_pkgfile(spkgfile, name, hash_value)
        IN  /\ nscript < MaxScriptCalls
            /\ spkgfile' = r.file
            /\ spkgLast' = [called |-> TRUE, name |-> name, hash_value |-> hash_value,
                            mode |-> r.mode, ret |-> r.ret,
                            before |-> spkgfile, after |-> r.file]
            /\ nscript' = nscript + 1
            /\ UNCHANGED <<pkgfile, pkgArgs, pkgBefore, nwrites, slugVars, bodyVars>>
            /\ UNCHANGED <<teamVars, prVars, mainVars>>

(***************************************************************************)
(* slugify.  A string is the sequence of its characters; a character is a  *)
(* one-character string, or the name of a code point outside ASCII.        *)
(***************************************************************************)
\* [a-z0-9]
AlNum ==
    {"a", "b", "c", "d", "e", "f", "g", "h", "i", "j", "k", "l", "m", "n", "o",
     "p", "q", "r", "s", "t", "u", "v", "w", "x", "y", "z",
     "0", "1", "2", "3", "4", "5", "6", "7", "8", "9"}

\* The characters of the texts tried: a lower-case and an upper-case letter,
\* a digit, the dash, a dot, a blank and LATIN CAPITAL LETTER I WITH DOT
\* ABOVE, which str.lower() turns into two characters.
Chars == {"a", "S", "1", "-", ".", " ", "U+0130"}

\* Every character there is in a text or in its lower-case form.
AllChars == AlNum \cup Chars \cup {"U+0307"}

\* str.lower() of one character.
LowerChar(c) ==
    IF c = "S" THEN <<"s">>
    ELSE IF c = "U+0130" THEN <<"i", "U+0307">>
    ELSE <<c>>

\* str.lower()
RECURSIVE Lower(_)
Lower(s) == IF s = <<>> THEN <<>> ELSE LowerChar(Head(s)) \o Lower(Tail(s))

RECURSIVE DropWhile(_, _)
DropWhile(class, s) ==
    IF s # <<>> /\ Head(s) \in class THEN DropWhile(class, Tail(s)) ELSE s

\* re.sub(r"[class]+", "-", s): every maximal run of characters of the class
\* becomes one dash.
RECURSIVE ReSub(_, _)
ReSub(class, s) ==
    IF s = <<>> THEN <<>>
    ELSE IF Head(s) \in class
    THEN <<"-">> \o ReSub(class, DropWhile(class, Tail(s)))
    ELSE <<Head(s)>> \o ReSub(class, Tail(s))

RECURSIVE RStrip(_)
RStrip(s) ==
    IF s # <<>> /\ s[Len(s)] = "-" THEN RStrip(SubSeq(s, 1, Len(s) - 1)) ELSE s

\* str.strip("-")
Strip(s) == RStrip(DropWhile({"-"}, s))

DefaultSlugCapitalised == <<"S", "o", "f", "t", "w", "a", "r", "e">>
\* "software"
DefaultSlug == <<"s", "o", "f", "t", "w", "a", "r", "e">>

\* FleetGitOpsUploader._slugify
UploaderSlugify(t) ==
    LET s1 == Lower(t)
        s2 == ReSub(AllChars \ AlNum, s1)
        s3 == Strip(ReSub({"-"}, s2))
    IN  IF s3 # <<>> THEN s3 ELSE DefaultSlug

\* slugify of update_gitops.py
slugify(name) == Strip(ReSub(AllChars \ AlNum, Lower(name)))

Texts == SeqsUpTo(Chars, MaxStrLen)

NoSlugCall == [fn |-> "none", arg |-> <<>>, ret |-> <<>>]

SlugIdle ==
    /\ text = <<>>
    /\ slugLast = NoSlugCall
    /\ slugPrev = NoSlugCall
    /\ nslug = 0

InitSlug ==
    /\ text \in Texts
    /\ slugLast = NoSlugCall
    /\ slugPrev = NoSlugCall
    /\ nslug = 0

\* fn is applied to the text, and its result is the text from then on.
Applied(fn, ret) ==
    /\ nslug < MaxSlugCalls
    /\ text' = ret
    /\ slugPrev' = slugLast
    /\ slugLast' = [fn |-> fn, arg |-> text, ret |-> ret]
    /\ nslug' = nslug + 1
    /\ UNCHANGED <<pkgfile, pkgArgs, pkgBefore, nwrites, scriptVars, bodyVars>>
    /\ UNCHANGED <<teamVars, prVars, mainVars>>

UploaderSlugifyCall == Applied("_slugify", UploaderSlugify(text))

SlugifyCall == Applied("slugify", slugify(text))

(***************************************************************************)
(* FleetImporter._pr_body.  The slug is the sequence of its characters,    *)
(* the other arguments are strings and numbers.                            *)
(***************************************************************************)
\* The string of a sequence of characters.
RECURSIVE Concat(_)
Concat(s) == IF s = <<>> THEN "" ELSE Head(s) \o Concat(Tail(s))

\* The index of the first c in s, 0 if there is none.
RECURSIVE IndexOf(_, _, _)
IndexOf(s, c, i) ==
    IF i > Len(s) THEN 0 ELSE IF s[i] = c THEN i ELSE IndexOf(s, c, i + 1)

HasOwnerRepoAlways(software_slug) == TRUE
\* `"/" in software_slug`
HasOwnerRepo(software_slug) == InSeq("/", software_slug)

\* "\n".join(lines)
RECURSIVE JoinLines(_)
JoinLines(lines) ==
    IF lines = <<>> THEN ""
    ELSE IF Len(lines) = 1 THEN lines[1]
    ELSE lines[1] \o "\n" \o JoinLines(Tail(lines))

\* The grave accent that encloses a value in the body, by the name of its
\* code point.
Tick == "U+0060"

\* lines, as _pr_body composes it.
PrBodyLines(a) ==
    LET i == IndexOf(a.software_slug, "/", 1)
        owner == SubSeq(a.software_slug, 1, i - 1)
        repo == SubSeq(a.software_slug, i + 1, Len(a.software_slug))
        url == IF ~Truthy(a.changelog_url) /\ HasOwnerRepo(a.software_slug)
               THEN "https://github.com/" \o Concat(owner) \o "/" \o Concat(repo)
                        \o "/releases/tag/" \o a.version
               ELSE a.changelog_url
    IN  <<"### " \o a.name \o " " \o a.version, "">>
        \o (IF Truthy(url) THEN <<"[Changelog](" \o url \o ")", "">> ELSE <<>>)
        \o <<"Fleet title ID: " \o Tick \o ToString(a.title_id) \o Tick,
              "Fleet installer ID: " \o Tick \o ToString(a.installer_id) \o Tick,
              "Software slug: " \o Tick \o Concat(a.software_slug) \o Tick>>

\* _pr_body(name, version, software_slug, title_id, installer_id,
\* changelog_url)
pr_body(a) == JoinLines(PrBodyLines(a)) \o "\n"

SlugChars == {"m", "f", "/"}

BodyArgs ==
    [name : {"Firefox"}, version : {"1.2.3", "2.0"},
     software_slug : SeqsUpTo(SlugChars, MaxSlugLen),
     title_id : {42}, installer_id : {99},
     changelog_url : {None, "", "https://example.com/changelog"}]

BodyIdle ==
    /\ bodyArgs = CHOOSE a \in BodyArgs : TRUE
    /\ bodyCalled = FALSE
    /\ body = ""
    /\ bodyLines = <<>>

InitBody ==
    /\ bodyArgs \in BodyArgs
    /\ bodyCalled = FALSE
    /\ body = ""
    /\ bodyLines = <<>>

\* One call of _pr_body.
PrBodyCall ==
    /\ ~bodyCalled
    /\ bodyCalled' = TRUE
    /\ body' = pr_body(bodyArgs)
    /\ bodyLines' = PrBodyLines(bodyArgs)
    /\ UNCHANGED bodyArgs
    /\ UNCHANGED <<pkgfile, pkgArgs, pkgBefore, nwrites, scriptVars, slugVars>>
    /\ UNCHANGED <<teamVars, prVars, mainVars>>

NoCall == [fn |-> "none", arg |-> "", self_service |-> "", ret |-> "",
           wrote |-> FALSE, before |-> MissingFile, after |-> MissingFile]

InitTeam ==
    /\ teamfile \in TeamDocs
    /\ teamLast = NoCall
    /\ teamPrev = NoCall
    /\ ncalls = 0

TeamIdle ==
    /\ teamfile = MissingFile
    /\ teamLast = NoCall
    /\ teamPrev = NoCall
    /\ ncalls = 0

\* The processor's ensure-operation on the team document.
EnsureTeamYamlHasPackageCall ==
    \E slug \in Slugs :
        LET r == EnsureTeamYamlHasPackage(teamfile, RefPath(slug))
        IN  /\ ncalls < MaxCalls
            /\ teamfile' = r.file
            /\ teamPrev' = teamLast
            /\ teamLast' = [fn |-> "_ensure_team_yaml_has_package",
                            arg |-> RefPath(slug), self_service |-> "",
                            ret |-> r.ret, wrote |-> r.wrote,
                            before |-> teamfile, after |-> r.file]
            /\ ncalls' = ncalls + 1
            /\ UNCHANGED <<pkgVars, prVars, mainVars>>

\* The script's ensure-operation on the team document.
EnsureTeamCall ==
    \E slug \in Slugs, self_service \in BOOLEAN :
        LET r == ensure_team(teamfile, slug, self_service)
        IN  /\ ncalls < MaxCalls
            /\ teamfile' = r.file
            /\ teamPrev' = teamLast
            /\ teamLast' = [fn |-> "ensure_team",
                            arg |-> Target(slug), self_service |-> PyBool(self_service),
                            ret |-> r.ret, wrote |-> r.wrote,
                            before |-> teamfile, after |-> r.file]
            /\ ncalls' = ncalls + 1
            /\ UNCHANGED <<pkgVars, prVars, mainVars>>

(***************************************************************************)
(* The pull-request publisher.  The service holds the open pull requests;  *)
(* what it answers to a call is its own choice within what its state       *)
(* allows: no second pull request is created for a head/base that has an   *)
(* open one, and any call can fail.                                        *)
(***************************************************************************)
GithubRepo == "kitzy/fleet-gitops"
Heads == {"firefox-1.2.3", "chrome-1.2.3"}
Bases == {"main"}
PrLabelLists == {<<>>, <<"autopkg">>}

PrUrl(number) == "https://github.com/" \o GithubRepo \o "/pull/" \o ToString(number)

\* Responses: an HTTP response with a status, or no response at all (the
\* requests call raises).
Http(status) == [kind |-> "http", status |-> status]
NoResponse == [kind |-> "exception", status |-> 0]

Matching(open, head, base) == {pr \in open : pr.head = head /\ pr.base = base}

\* What the service may answer to POST /repos/{repo}/pulls.
CreateResponses(open, head, base) ==
    {Http(422), Http(401), Http(500), NoResponse}
    \cup (IF Matching(open, head, base) = {} THEN {Http(201)} ELSE {})

\* What the service may answer to GET /search/issues and to POST .../labels.
SearchResponses == {Http(200), Http(403), NoResponse}
LabelResponses == {Http(200), Http(404), NoResponse}

\* r.text of a response.
ResponseText(resp) == "body of " \o ToString(resp.status)

\* `r.status_code not in (201, 422)`
CreateRejectedUnless201(status) == status # 201
CreateRejected(status) == status \notin {201, 422}

\* _find_existing_pr_url: items[0]["html_url"] of an ok, non-empty search for
\* the open pull requests of head/base, else "".
FindExistingPrUrl(open, head, base, sr) ==
    IF sr.kind = "http" /\ sr.status = 200 /\ Matching(open, head, base) # {}
    THEN PrUrl((CHOOSE pr \in Matching(open, head, base) : TRUE).number)
    ELSE ""

\* `if labels and pr_url and "number" in pr`
LabelsApplied(labels, pr_url, created) == labels # <<>> /\ pr_url # "" /\ created

PrResult(open, number, calls, outcome, error, ret) ==
    [prs |-> open, nextNumber |-> number, calls |-> calls, outcome |-> outcome,
     error |-> error, ret |-> ret]

NoError == [status |-> 0, text |-> ""]

\* _open_pull_request(github_repo, github_token, head, base, title, body,
\* labels) against the service state `open`, given the service's answers cr,
\* sr and lr to the create, search and label calls: the service state after
\* the call, the API calls made in order, how the call ended ("return",
\* "ProcessorError", or "exception" when a requests call raised) and the value
\* returned.
OpenPullRequest(open, number, head, base, labels, cr, sr, lr) ==
    IF cr.kind = "exception"
    THEN PrResult(open, number, <<"create">>, "exception", NoError, "")
    ELSE IF CreateRejected(cr.status)
    THEN PrResult(open, number, <<"create">>, "ProcessorError",
                  [status |-> cr.status, text |-> ResponseText(cr)], "")
    ELSE
        LET created == cr.status = 201
            open1 == IF created
                     THEN open \cup {[number |-> number, head |-> head, base |-> base]}
                     ELSE open
            number1 == IF created THEN number + 1 ELSE number
            html_url == IF created THEN PrUrl(number) ELSE ""
            searched == html_url = ""
            pr_url == IF searched THEN FindExistingPrUrl(open1, head, base, sr)
                      ELSE html_url
            calls1 == IF searched THEN <<"create", "search">> ELSE <<"create">>
        IN  IF searched /\ sr.kind = "exception"
            THEN PrResult(open1, number1, calls1, "exception", NoError, "")
            ELSE IF LabelsApplied(labels, pr_url, created)
            THEN PrResult(open1, number1, Append(calls1, "labels"),
                          IF lr.kind = "exception" THEN "exception" ELSE "return",
                          NoError,
                          IF lr.kind = "exception" THEN "" ELSE pr_url)
            ELSE PrResult(open1, number1, calls1, "return", NoError, pr_url)

NoPrCall == [called |-> FALSE, head |-> "", base |-> "", labels |-> <<>>,
             cr |-> NoResponse, sr |-> NoResponse, lr |-> NoResponse,
             openBefore |-> {}, calls |-> <<>>, outcome |-> "",
             error |-> NoError, ret |-> ""]

PrIdle ==
    /\ prs = {}
    /\ nextNumber = 1
    /\ prLast = NoPrCall
    /\ prPrev = NoPrCall
    /\ nprcalls = 0

InitPR == PrIdle

\* One call of _open_pull_request.
OpenPullRequestCall ==
    \E head \in Heads, base \in Bases, labels \in PrLabelLists,
       sr \in SearchResponses, lr \in LabelResponses :
      \E cr \in CreateResponses(prs, head, base) :
        LET r == OpenPullRequest(prs, nextNumber, head, base, labels, cr, sr, lr)
        IN  /\ nprcalls < MaxPrCalls
            /\ prs' = r.prs
            /\ nextNumber' = r.nextNumber
            /\ prPrev' = prLast
            /\ prLast' = [called |-> TRUE, head |-> head, base |-> base,
                          labels |-> labels, cr |-> cr,
                          sr |-> IF "search" \in {r.calls[i] : i \in 1..Len(r.calls)}
                                 THEN sr ELSE NoResponse,
                          lr |-> IF "labels" \in {r.calls[i] : i \in 1..Len(r.calls)}
                                 THEN lr ELSE NoResponse,
                          openBefore |-> Matching(prs, head, base),
                          calls |-> r.calls, outcome |-> r.outcome,
                          error |-> r.error, ret |-> r.ret]
            /\ nprcalls' = nprcalls + 1
            /\ UNCHANGED <<teamVars, pkgVars, mainVars>>

\* Somebody merges or closes an open pull request.
ClosePullRequest ==
    \E pr \in prs :
        /\ prs' = prs \ {pr}
        /\ UNCHANGED <<nextNumber, prLast, prPrev, nprcalls>>
        /\ UNCHANGED <<teamVars, pkgVars, mainVars>>

(***************************************************************************)
(* main(): one run of the processor, stage by stage.  The remote holds the *)
(* base branch and the branches pushed so far; a commit is the sequence of *)
(* snapshots from the root to it, so that two commits are the same commit  *)
(* exactly when parent, tree, date and message agree, and an ancestor is a *)
(* prefix.                                                                 *)
(***************************************************************************)
SoftwareTitle == "Firefox"
SoftwareSlug == "firefox"
Version == "1.2.3"
GitBaseBranch == "main"

\* self.env and os.environ as main() reads them: github_token and
\* env_GITHUB_TOKEN tell whether the input and the environment variable hold
\* a non-empty token.
Inputs ==
    [pkg_is_file : BOOLEAN, github_token : BOOLEAN, env_GITHUB_TOKEN : BOOLEAN,
     labels_include_any : LabelLists, labels_exclude_any : LabelLists,
     pr_labels : PrLabelLists, branch_prefix : {"", "autopkg"}]

GithubTokenAlways(i) == TRUE
\* `self.env.get("github_token") or os.environ.get("GITHUB_TOKEN", "")`, as
\* `if not github_token` tests it.
GithubToken(i) == i.github_token \/ i.env_GITHUB_TOKEN

\* The methods class FleetGitOpsUploader defines.  Its base class,
\* autopkglib.Processor, defines none of the helpers main() calls, so that
\* `self.name` raises AttributeError for any other name.
Methods ==
    {"_derive_github_repo", "main", "_slugify", "_git", "_git_safe_commit",
     "_fleet_upload_package", "_read_yaml", "_write_yaml",
     "_write_or_update_package_yaml", "_ensure_team_yaml_has_package",
     "_open_pull_request", "_find_existing_pr_url"}

HasMethod(name) == name \in Methods

\* resp.json() of a 200 answer of the upload endpoint.
UploadInfo == [title_id |-> 42, installer_id |-> 99, hash_sha256 |-> "abc123",
               version |-> Version]

UploadResponses == {Http(200), Http(500), NoResponse}

LabelsNeverRejected(labels_include_any, labels_exclude_any) == FALSE
\* `if labels_include_any and labels_exclude_any: raise`
UploadRejectsLabels(labels_include_any, labels_exclude_any) ==
    labels_include_any # <<>> /\ labels_exclude_any # <<>>

\* The arguments main() passes to _write_or_update_package_yaml.
MainPkgArgs(i) ==
    [software_title |-> SoftwareTitle, version |-> UploadInfo.version,
     platform |-> "darwin", hash_sha256 |-> UploadInfo.hash_sha256,
     self_service |-> FALSE,
     labels_include_any |-> i.labels_include_any,
     labels_exclude_any |-> i.labels_exclude_any,
     automatic_install |-> FALSE, pre_install_query |-> "",
     install_script |-> "", uninstall_script |-> "", post_install_script |-> ""]

\* branch_name
BranchName(i) ==
    LET name == SoftwareSlug \o "-" \o UploadInfo.version
    IN  IF i.branch_prefix # "" THEN i.branch_prefix \o "/" \o name ELSE name

\* commit_msg
CommitMsg ==
    "feat(software): " \o SoftwareTitle \o " " \o UploadInfo.version
        \o " [" \o SoftwareSlug \o "]"

Tree(pkgyaml, team) == [pkgyaml |-> pkgyaml, team |-> team]
EmptyTree == Tree(MissingPkgFile, MissingFile)

Snapshot(tree, time, msg) == [tree |-> tree, time |-> time, msg |-> msg]
Tip(commit) == commit[Len(commit)].tree
IsAncestor(a, b) == Len(a) <= Len(b) /\ SubSeq(b, 1, Len(a)) = a

OldPkgFile ==
    PkgFile(TRUE, [package |-> [name |-> SoftwareTitle, version |-> "1.0",
                                platform |-> "darwin"]])

\* The trees a base branch can hold when the first run starts.
BaseTrees(i) ==
    {Tree(p, t) :
        p \in {MissingPkgFile, OldPkgFile}
              \cup (IF i.labels_include_any = <<>> \/ i.labels_exclude_any = <<>>
                    THEN {WriteOrUpdatePackageYaml(MissingPkgFile, MainPkgArgs(i))}
                    ELSE {}),
        t \in {MissingFile,
               TeamDoc(TRUE, "map", "list", <<>>),
               TeamDoc(TRUE, "map", "list", <<PathEntry(RefPath("chrome"))>>),
               TeamDoc(TRUE, "map", "list", <<StrEntry(RefPath(SoftwareSlug))>>)}}

NoWs == [exists |-> FALSE, worktree |-> EmptyTree, index |-> EmptyTree,
         head |-> <<>>, branch |-> ""]

NewRun == [netcalls |-> <<>>, writes |-> <<>>, steps |-> <<>>,
           team_yaml_modified |-> "unset", committed |-> FALSE,
           pushOutcome |-> "none", failedAt |-> "", error |-> "",
           branch_name |-> "", out |-> EmptyMap]

\* How a run ended: done or failed, and what it had done.
Ended(r, result) ==
    [result |-> result, failedAt |-> r.failedAt,
     team_yaml_modified |-> r.team_yaml_modified, committed |-> r.committed,
     pushOutcome |-> r.pushOutcome, out |-> r.out]

NoRun == Ended(NewRun, "none")

MainIdle ==
    /\ inp = CHOOSE i \in Inputs : TRUE
    /\ remote = [base |-> <<>>, branches |-> {}]
    /\ now = 0
    /\ nrun = 0
    /\ pc = "idle"
    /\ ws = NoWs
    /\ run = NewRun
    /\ prev = NoRun

InitMain ==
    /\ inp \in Inputs
    /\ \E tree \in BaseTrees(inp) :
           remote = [base |-> <<Snapshot(tree, 0, "base")>>, branches |-> {}]
    /\ now = 0
    /\ nrun = 1
    /\ pc = "inputs"
    /\ ws = NoWs
    /\ run = NewRun
    /\ prev = NoRun

Step(stage) == [run EXCEPT !.steps = Append(@, stage)]

RaiseKeepsWorkspace(r, stage, error) ==
    /\ pc' = "failed"
    /\ UNCHANGED ws
    /\ run' = [r EXCEPT !.failedAt = stage, !.error = error]
\* A ProcessorError (or any exception) leaves main(): the with-block removes
\* the temporary directory, nothing further runs.
Raise(r, stage, error) ==
    /\ pc' = "failed"
    /\ ws' = NoWs
    /\ run' = [r EXCEPT !.failedAt = stage, !.error = error]

\* Lines 227-266: the inputs are read; pkg_path must be a file and a GitHub
\* token must come from github_token or GITHUB_TOKEN.
ReadInputs ==
    /\ pc = "inputs"
    /\ IF ~inp.pkg_is_file
       THEN Raise(Step("inputs"), "inputs", "pkg_path not found")
       ELSE IF ~GithubToken(inp)
       THEN Raise(Step("inputs"), "inputs", "GitHub token not provided")
       ELSE /\ pc' = "upload"
            /\ run' = Step("inputs")
            /\ UNCHANGED ws
    /\ UNCHANGED <<inp, remote, now, nrun, prev>>
    /\ UNCHANGED <<teamVars, pkgVars, prVars>>

\* Lines 268-288 and _fleet_upload_package.
FleetUploadPackage ==
    /\ pc = "upload"
    /\ IF UploadRejectsLabels(inp.labels_include_any, inp.labels_exclude_any)
       THEN Raise(Step("upload"), "upload",
                  "Only one of labels_include_any or labels_exclude_any may be specified.")
       ELSE \E resp \in UploadResponses :
              LET r == [Step("upload") EXCEPT !.netcalls = Append(@, "upload")]
              IN  IF resp = Http(200)
                  THEN /\ pc' = "clone"
                       /\ run' = r
                       /\ UNCHANGED ws
                  ELSE Raise(r, "upload", "Fleet upload failed")
    /\ UNCHANGED <<inp, remote, now, nrun, prev>>
    /\ UNCHANGED <<teamVars, pkgVars, prVars>>

\* Lines 291-293: the temporary directory is made and the base branch cloned
\* into it.
GitClone ==
    /\ pc = "clone"
    /\ \E ok \in BOOLEAN :
         LET r == [Step("clone") EXCEPT !.netcalls = Append(@, "clone")]
         IN  IF ok
             THEN /\ pc' = "branch"
                  /\ run' = r
                  /\ ws' = [exists |-> TRUE, worktree |-> Tip(remote.base),
                            index |-> Tip(remote.base), head |-> remote.base,
                            branch |-> GitBaseBranch]
             ELSE Raise(r, "clone", "git clone failed")
    /\ UNCHANGED <<inp, remote, now, nrun, prev>>
    /\ UNCHANGED <<teamVars, pkgVars, prVars>>

GitCheckoutBranchSetsOutput ==
    /\ pc = "branch"
    /\ \E ok \in BOOLEAN :
         IF ok
         THEN /\ pc' = "pkgyaml"
              /\ run' = [Step("branch") EXCEPT !.branch_name = BranchName(inp),
                                               !.out = [git_branch |-> BranchName(inp)]]
              /\ ws' = [ws EXCEPT !.branch = BranchName(inp)]
         ELSE Raise(Step("branch"), "branch", "git checkout failed")
    /\ UNCHANGED <<inp, remote, now, nrun, prev>>
    /\ UNCHANGED <<teamVars, pkgVars, prVars>>
\* Lines 296-299: git checkout -b branch_name, from the cloned base.
GitCheckoutBranch ==
    /\ pc = "branch"
    /\ \E ok \in BOOLEAN :
         IF ok
         THEN /\ pc' = "pkgyaml"
              /\ run' = [Step("branch") EXCEPT !.branch_name = BranchName(inp)]
              /\ ws' = [ws EXCEPT !.branch = BranchName(inp)]
         ELSE Raise(Step("branch"), "branch", "git checkout failed")
    /\ UNCHANGED <<inp, remote, now, nrun, prev>>
    /\ UNCHANGED <<teamVars, pkgVars, prVars>>

\* Lines 302-323: the package YAML is written in the work tree.
WritePackageYaml ==
    /\ pc = "pkgyaml"
    /\ pc' = "teamyaml"
    /\ ws' = [ws EXCEPT !.worktree.pkgyaml =
                  WriteOrUpdatePackageYaml(@, MainPkgArgs(inp))]
    /\ run' = [Step("pkgyaml") EXCEPT !.writes = Append(@, "pkgyaml")]
    /\ UNCHANGED <<inp, remote, now, nrun, prev>>
    /\ UNCHANGED <<teamVars, pkgVars, prVars>>

\* Lines 326-334: the team YAML must exist; then the reference is ensured.
EnsureTeamYaml ==
    /\ pc = "teamyaml"
    /\ IF ~ws.worktree.team.exists
       THEN Raise(Step("teamyaml"), "teamyaml", "team_yaml_path not found")
       ELSE LET r == EnsureTeamYamlHasPackage(ws.worktree.team, RefPath(SoftwareSlug))
            IN  /\ pc' = "stage"
                /\ ws' = [ws EXCEPT !.worktree.team = r.file]
                /\ run' = [Step("teamyaml") EXCEPT
                             !.team_yaml_modified = r.ret,
                             !.writes = IF r.wrote THEN Append(@, "teamyaml") ELSE @]
    /\ UNCHANGED <<inp, remote, now, nrun, prev>>
    /\ UNCHANGED <<teamVars, pkgVars, prVars>>

\* Lines 337-342: git config twice, git add of the package YAML, git add of
\* the team YAML if it was modified.
GitStage ==
    /\ pc = "stage"
    /\ \E ok \in BOOLEAN :
         IF ok
         THEN /\ pc' = "commit"
              /\ run' = Step("stage")
              /\ ws' = [ws EXCEPT
                          !.index.pkgyaml = ws.worktree.pkgyaml,
                          !.index.team = IF run.team_yaml_modified = "True"
                                         THEN ws.worktree.team ELSE @]
         ELSE Raise(Step("stage"), "stage", "git config or git add failed")
    /\ UNCHANGED <<inp, remote, now, nrun, prev>>
    /\ UNCHANGED <<teamVars, pkgVars, prVars>>

\* git status --porcelain prints a line for every staged, unstaged or
\* untracked change.
Status(w) == w.index # Tip(w.head) \/ w.worktree # w.index

\* Lines 345-346 and _git_safe_commit: git commit runs if the status output
\* is not empty; git commit exits 1 when nothing is staged.  The commit is
\* dated with the clock, which has not run backwards since it was last read.
GitSafeCommit ==
    /\ pc = "commit"
    /\ \E ok \in BOOLEAN, date \in now..MaxTime :
         /\ now' = date
         /\ IF ~ok
            THEN Raise(Step("commit"), "commit", "git status or git commit failed")
            ELSE IF ~Status(ws)
            THEN /\ pc' = "push"
                 /\ run' = Step("commit")
                 /\ UNCHANGED ws
            ELSE IF ws.index = Tip(ws.head)
            THEN Raise(Step("commit"), "commit",
                       "git commit failed: nothing added to commit")
            ELSE /\ pc' = "push"
                 /\ run' = [Step("commit") EXCEPT !.committed = TRUE]
                 /\ ws' = [ws EXCEPT
                             !.head = Append(@, Snapshot(ws.index, date, CommitMsg))]
    /\ UNCHANGED <<inp, remote, nrun, prev>>
    /\ UNCHANGED <<teamVars, pkgVars, prVars>>

RemoteBranch(name) == {b \in remote.branches : b.name = name}

PushForced(name, head) == TRUE
\* Line 349 pushes without --force: the remote accepts a push that creates
\* the branch or fast-forwards it.
PushAccepted(name, head) ==
    \A b \in RemoteBranch(name) : IsAncestor(b.commit, head)

\* Line 349: git push --set-upstream origin branch_name; then the with-block
\* ends and the temporary directory is removed.
GitPush ==
    /\ pc = "push"
    /\ \E ok \in BOOLEAN :
         LET r == [Step("push") EXCEPT !.netcalls = Append(@, "push")]
         IN  IF ~ok
             THEN /\ Raise([r EXCEPT !.pushOutcome = "error"], "push", "git push failed")
                  /\ UNCHANGED remote
             ELSE IF ~PushAccepted(ws.branch, ws.head)
             THEN /\ Raise([r EXCEPT !.pushOutcome = "non-fast-forward"], "push",
                           "git push failed: rejected (non-fast-forward)")
                  /\ UNCHANGED remote
             ELSE /\ pc' = "pr"
                  /\ run' = [r EXCEPT !.pushOutcome = "accepted"]
                  /\ ws' = NoWs
                  /\ remote' = [remote EXCEPT !.branches =
                                   (@ \ RemoteBranch(ws.branch))
                                   \cup {[name |-> ws.branch, commit |-> ws.head]}]
    /\ UNCHANGED <<inp, now, nrun, prev>>
    /\ UNCHANGED <<teamVars, pkgVars, prVars>>

\* The service creates no pull request for a head without commits ahead of
\* the base.
PrCreateResponses(head, base) ==
    CreateResponses(prs, head, base)
    \ (IF \A b \in RemoteBranch(head) : IsAncestor(b.commit, remote.base)
       THEN {Http(201)} ELSE {})

PrNetcall(call) == "pr-" \o call

\* Lines 352-368: the arguments of _open_pull_request are evaluated, among
\* them body=self._pr_body(...); then _open_pull_request is called; then the
\* four output variables are set.
OpenPullRequestStep ==
    /\ pc = "pr"
    /\ IF ~HasMethod("_pr_body")
       THEN /\ Raise(Step("pr"), "pr", "AttributeError: _pr_body")
            /\ UNCHANGED prVars
       ELSE
       \E sr \in SearchResponses, lr \in LabelResponses :
       \E cr \in PrCreateResponses(run.branch_name, GitBaseBranch) :
         LET r == OpenPullRequest(prs, nextNumber, run.branch_name, GitBaseBranch,
                                  inp.pr_labels, cr, sr, lr)
             called == {r.calls[i] : i \in 1..Len(r.calls)}
             run1 == [Step("pr") EXCEPT
                        !.netcalls = @ \o [i \in 1..Len(r.calls) |-> PrNetcall(r.calls[i])]]
         IN  /\ prs' = r.prs
             /\ nextNumber' = r.nextNumber
             /\ UNCHANGED prPrev
             /\ prLast' = [called |-> TRUE, head |-> run.branch_name,
                           base |-> GitBaseBranch, labels |-> inp.pr_labels, cr |-> cr,
                           sr |-> IF "search" \in called THEN sr ELSE NoResponse,
                           lr |-> IF "labels" \in called THEN lr ELSE NoResponse,
                           openBefore |-> Matching(prs, run.branch_name, GitBaseBranch),
                           calls |-> r.calls, outcome |-> r.outcome,
                           error |-> r.error, ret |-> r.ret]
             /\ nprcalls' = nprcalls + 1
             /\ IF r.outcome = "return"
                THEN /\ pc' = "done"
                     /\ run' = [run1 EXCEPT !.out =
                                  [fleet_title_id |-> ToString(UploadInfo.title_id),
                                   fleet_installer_id |-> ToString(UploadInfo.installer_id),
                                   git_branch |-> run.branch_name,
                                   pull_request_url |-> r.ret]]
                     /\ UNCHANGED ws
                ELSE Raise(run1, "pr", "PR creation failed")
    /\ UNCHANGED <<inp, remote, now, nrun, prev>>
    /\ UNCHANGED <<teamVars, pkgVars>>

\* main() is run again with the same inputs against the same remote.
StartRun ==
    /\ pc \in {"done", "failed"}
    /\ nrun < MaxRuns
    /\ prev' = Ended(run, pc)
    /\ run' = NewRun
    /\ nrun' = nrun + 1
    /\ pc' = "inputs"
    /\ ws' = NoWs
    /\ UNCHANGED <<inp, remote, now>>
    /\ UNCHANGED <<teamVars, pkgVars, prVars>>

Next ==
    \/ ReadInputs
    \/ FleetUploadPackage
    \/ GitClone
    \/ GitCheckoutBranch
    \/ WritePackageYaml
    \/ EnsureTeamYaml
    \/ GitStage
    \/ GitSafeCommit
    \/ GitPush
    \/ OpenPullRequestStep
    \/ StartRun

Init == InitMain /\ TeamIdle /\ PkgIdle /\ ScriptIdle /\ PrIdle /\ SlugIdle /\ BodyIdle

Spec == Init /\ [][Next]_vars

NextTeam ==
    \/ EnsureTeamYamlHasPackageCall
    \/ EnsureTeamCall

InitTeamSpec == InitTeam /\ PkgIdle /\ ScriptIdle /\ PrIdle /\ MainIdle /\ SlugIdle /\ BodyIdle

SpecTeam == InitTeamSpec /\ [][NextTeam]_vars

NextPkg == WriteOrUpdatePackageYamlCall

InitPkgSpec == InitPkg /\ ScriptIdle /\ TeamIdle /\ PrIdle /\ MainIdle /\ SlugIdle /\ BodyIdle

SpecPkg == InitPkgSpec /\ [][NextPkg]_vars

NextPR ==
    \/ OpenPullRequestCall
    \/ ClosePullRequest

InitPRSpec == InitPR /\ TeamIdle /\ PkgIdle /\ ScriptIdle /\ MainIdle /\ SlugIdle /\ BodyIdle

SpecPR == InitPRSpec /\ [][NextPR]_vars

NextScript == EnsurePkgfileCall

InitScriptSpec == InitScript /\ TeamIdle /\ PkgIdle /\ PrIdle /\ MainIdle /\ SlugIdle /\ BodyIdle

SpecScript == InitScriptSpec /\ [][NextScript]_vars

NextSlug ==
    \/ UploaderSlugifyCall
    \/ SlugifyCall

InitSlugSpec == InitSlug /\ TeamIdle /\ PkgIdle /\ ScriptIdle /\ PrIdle /\ MainIdle /\ BodyIdle

SpecSlug == InitSlugSpec /\ [][NextSlug]_vars

NextBody == PrBodyCall

InitBodySpec ==
    InitBody /\ TeamIdle /\ PkgIdle /\ ScriptIdle /\ SlugIdle /\ PrIdle /\ MainIdle

SpecBody == InitBodySpec /\ [][NextBody]_vars

(***************************************************************************)
(* Properties of the ensure-operations on a team document (SpecTeam).      *)
(***************************************************************************)
PackagesOf(file) == IF file.packages = "list" THEN file.pkgs ELSE <<>>

Called == teamLast.fn # "none"

\* The last two operations were the same function with the same arguments.
SameCallTwice ==
    /\ teamPrev.fn # "none"
    /\ teamLast.fn = teamPrev.fn
    /\ teamLast.arg = teamPrev.arg
    /\ teamLast.self_service = teamPrev.self_service

\* The comparable path of an entry, as the called function computes it:
\* pkg_ref in the processor, entry.get('package_path') in the script.
NormPath(fn, p) ==
    IF fn = "ensure_team"
    THEN (IF p.kind = "dict" /\ p.package_path # NoKey THEN p.package_path ELSE "")
    ELSE pkg_ref(p)

Count(fn, pkgs, path) == Cardinality({i \in 1..Len(pkgs) : NormPath(fn, pkgs[i]) = path})

NoDuplicate(fn, pkgs) ==
    \A i, j \in 1..Len(pkgs) :
        (i # j /\ NormPath(fn, pkgs[i]) # "") => NormPath(fn, pkgs[i]) # NormPath(fn, pkgs[j])

AllPaths == {RefPath(s) : s \in Slugs} \cup {Target(s) : s \in Slugs}

\* C1: an ensure-operation called twice in a row with the same reference
\* path is idempotent: the second call does not report a change (the
\* processor's returns False; the script's returns no flag at all) and leaves
\* the document, hence the length of software.packages, as the first left it.
C1_EnsureTeamIdempotent ==
    SameCallTwice =>
        /\ teamLast.fn = "_ensure_team_yaml_has_package" => teamLast.ret = "False"
        /\ teamLast.ret # "True"
        /\ Len(PackagesOf(teamLast.after)) = Len(PackagesOf(teamPrev.after))
        /\ teamLast.after = teamPrev.after

\* The first of two equal calls appended the reference to a list that held
\* other entries, and the second call has run.
C1_Witness ==
    /\ SameCallTwice
    /\ teamLast.fn = "_ensure_team_yaml_has_package"
    /\ teamPrev.ret = "True"
    /\ Len(PackagesOf(teamPrev.before)) >= 1
    /\ teamLast.ret = "False"

\* C2: an ensure-operation never deletes, reorders or alters a pre-existing
\* entry that refers to other software: every such entry keeps its index and
\* content (the processor alters no entry at all; the script alters only the
\* self_service field of the matching entry), and a newly added reference is
\* the last element.
C2_EnsureTeamPreservesEntries ==
    Called =>
        LET old == PackagesOf(teamLast.before)
            new == PackagesOf(teamLast.after)
            fn == teamLast.fn
        IN  /\ Len(new) \in {Len(old), Len(old) + 1}
            /\ \A i \in 1..Len(old) :
                    \/ new[i] = old[i]
                    \/ /\ fn = "ensure_team"
                       /\ NormPath(fn, old[i]) = teamLast.arg
                       /\ new[i] = [old[i] EXCEPT !.self_service = teamLast.self_service]
            /\ Len(new) = Len(old) + 1 =>
                    /\ NormPath(fn, new[Len(new)]) = teamLast.arg
                    /\ Count(fn, old, teamLast.arg) = 0

\* The processor appended a reference to a list of two entries for other
\* software.
C2_Witness ==
    /\ teamLast.fn = "_ensure_team_yaml_has_package"
    /\ teamLast.ret = "True"
    /\ Len(PackagesOf(teamLast.before)) = 2
    /\ \A i \in 1..2 : pkg_ref(PackagesOf(teamLast.before)[i]) \notin {"", teamLast.arg}
    /\ Len(PackagesOf(teamLast.after)) = 3

\* C3 as claimed: after any ensure-operation no two entries of
\* software.packages have the same normalized path.
C3_NoDuplicateAfterEnsure ==
    (Called /\ teamLast.ret # "raise") =>
        NoDuplicate(teamLast.fn, PackagesOf(teamLast.after))

\* C3 as amended: an ensure-operation never introduces a duplicate.  The
\* number of entries whose normalized path is the reference path becomes 1 if
\* it was 0 and is otherwise unchanged, the number for every other path is
\* unchanged, and a document without duplicates before has none after.
C3_EnsureAddsNoDuplicate ==
    Called =>
        LET old == PackagesOf(teamLast.before)
            new == PackagesOf(teamLast.after)
            fn == teamLast.fn
        IN  /\ \A path \in AllPaths :
                    Count(fn, new, path) =
                        IF path = teamLast.arg /\ Count(fn, old, path) = 0
                           /\ teamLast.ret # "raise"
                        THEN 1
                        ELSE Count(fn, old, path)
            /\ NoDuplicate(fn, old) => NoDuplicate(fn, new)

\* The reference was already present, as the second entry, and the
\* operation has run without adding it again.
C3_Witness ==
    /\ teamLast.fn = "_ensure_team_yaml_has_package"
    /\ Len(PackagesOf(teamLast.before)) = 2
    /\ pkg_ref(PackagesOf(teamLast.before)[1]) # teamLast.arg
    /\ pkg_ref(PackagesOf(teamLast.before)[2]) = teamLast.arg
    /\ Count(teamLast.fn, PackagesOf(teamLast.after), teamLast.arg) = 1

\* C20: an ensure-operation writes the team file only when it changes the
\* document: when the reference path is already among the entries and the
\* matching entry needs no update, the file is not written.
C20_WritesOnlyWhenChanged ==
    (/\ Called
     /\ Count(teamLast.fn, PackagesOf(teamLast.before), teamLast.arg) > 0
     /\ teamLast.after = teamLast.before) =>
        ~teamLast.wrote

(***************************************************************************)
(* Properties of the full-overwrite package write (SpecPkg).               *)
(***************************************************************************)
Has(m, key) == key \in DOMAIN m

\* C8: the package block written always holds name, version and platform,
\* and holds each optional field exactly when its input is truthy or
\* non-empty: hash_sha256 iff a hash was supplied, self_service iff true,
\* the label lists iff non-empty, automatic_install iff requested on darwin
\* or macos, each script or query block iff its string is non-empty.
C8_PackageBlockFields ==
    nwrites > 0 =>
        LET b == pkgfile.data.package
            a == pkgArgs
        IN  /\ pkgfile.exists
            /\ DOMAIN pkgfile.data = {"package"}
            /\ Has(b, "name") /\ b.name = a.software_title
            /\ Has(b, "version") /\ b.version = a.version
            /\ Has(b, "platform") /\ b.platform = a.platform
            /\ Has(b, "hash_sha256") <=> a.hash_sha256 \notin {None, ""}
            /\ Has(b, "hash_sha256") => b.hash_sha256 = a.hash_sha256
            /\ Has(b, "self_service") <=> a.self_service
            /\ Has(b, "self_service") => b.self_service = TRUE
            /\ Has(b, "labels_include_any") <=> Len(a.labels_include_any) > 0
            /\ Has(b, "labels_include_any") => b.labels_include_any = a.labels_include_any
            /\ Has(b, "labels_exclude_any") <=> Len(a.labels_exclude_any) > 0
            /\ Has(b, "labels_exclude_any") => b.labels_exclude_any = a.labels_exclude_any
            /\ Has(b, "automatic_install") <=>
                    (a.automatic_install /\ (a.platform = "darwin" \/ a.platform = "macos"))
            /\ Has(b, "automatic_install") => b.automatic_install = TRUE
            /\ Has(b, "pre_install_query") <=> a.pre_install_query # ""
            /\ Has(b, "pre_install_query") =>
                    b.pre_install_query = [query |-> a.pre_install_query]
            /\ Has(b, "install_script") <=> a.install_script # ""
            /\ Has(b, "install_script") => b.install_script = [contents |-> a.install_script]
            /\ Has(b, "uninstall_script") <=> a.uninstall_script # ""
            /\ Has(b, "uninstall_script") =>
                    b.uninstall_script = [contents |-> a.uninstall_script]
            /\ Has(b, "post_install_script") <=> a.post_install_script # ""
            /\ Has(b, "post_install_script") =>
                    b.post_install_script = [contents |-> a.post_install_script]

\* A block was written for a request that asks for automatic_install on
\* windows, supplies no hash and no install script, but has an include list
\* and an uninstall script.
C8_Witness ==
    /\ nwrites > 0
    /\ pkgArgs.platform = "windows" /\ pkgArgs.automatic_install
    /\ pkgArgs.hash_sha256 = None
    /\ pkgArgs.labels_include_any # <<>> /\ pkgArgs.labels_exclude_any = <<>>
    /\ pkgArgs.install_script = "" /\ pkgArgs.uninstall_script # ""
    /\ DOMAIN pkgfile.data.package =
           {"name", "version", "platform", "labels_include_any", "uninstall_script"}

\* The keys a package block is composed of.
PkgBlockKeys ==
    {"name", "version", "platform", "hash_sha256", "self_service",
     "labels_include_any", "labels_exclude_any", "automatic_install",
     "pre_install_query", "install_script", "uninstall_script",
     "post_install_script"}

RepeatedOpen ==
    /\ prPrev.called /\ prLast.called
    /\ prPrev.outcome = "return" /\ prPrev.cr = Http(201)
    /\ prLast.head = prPrev.head /\ prLast.base = prPrev.base
    /\ \E pr \in prLast.openBefore : PrUrl(pr.number) = prPrev.ret

\* C6: _open_pull_request called twice with the same repo, head and base,
\* the first pull request still open, returns the second time the URL the
\* first call returned.
C6_OpenTwiceSameUrl ==
    (RepeatedOpen /\ prLast.outcome = "return") => prLast.ret = prPrev.ret

\* C7: a 422 answer to the creation call is no error: the search call
\* follows (and no label call), and the URL the search found is returned;
\* any other answer than 201 and 422 ends the call with a ProcessorError that
\* carries the status and the body, after the creation call alone.
C7_ConflictFallsBackOthersFatal ==
    (prLast.called /\ prLast.cr.kind = "http") =>
        /\ prLast.cr.status = 422 =>
            /\ prLast.outcome # "ProcessorError"
            /\ prLast.calls = <<"create", "search">>
            /\ prLast.sr.kind = "http" => prLast.outcome = "return"
            /\ (prLast.sr = Http(200) /\ prLast.openBefore # {}) =>
                    /\ prLast.outcome = "return"
                    /\ \E pr \in prLast.openBefore : prLast.ret = PrUrl(pr.number)
        /\ prLast.cr.status \notin {201, 422} =>
            /\ prLast.outcome = "ProcessorError"
            /\ prLast.error = [status |-> prLast.cr.status,
                               text |-> ResponseText(prLast.cr)]
            /\ prLast.calls = <<"create">>
        /\ prLast.outcome = "ProcessorError" => prLast.cr.status \notin {201, 422}

\* The creation call was answered 422 for a pull request that is open, labels
\* were requested, and the call returned the URL the search found.
C7_Witness ==
    /\ RepeatedOpen
    /\ prLast.cr = Http(422)
    /\ prLast.labels # <<>>
    /\ prLast.calls = <<"create", "search">>
    /\ prLast.outcome = "return"
    /\ prLast.ret = prPrev.ret

(***************************************************************************)
(* Properties of main() (Spec).                                            *)
(***************************************************************************)
\* The run in progress is the second one and the first went through every
\* stage up to the push, which the remote accepted; nothing but the two runs
\* has touched the remote.
SecondRunAfterFirst == nrun = 2 /\ prev.pushOutcome = "accepted"

\* C4: in the second of two runs in immediate succession with identical
\* inputs the team-document ensure reports no change and the commit step
\* creates no commit.
C4_SecondRunChangesNothing ==
    (SecondRunAfterFirst /\ pc \in {"push", "pr", "done"}) =>
        /\ run.team_yaml_modified = "False"
        /\ ~run.committed

\* C5: in the second of two runs in immediate succession with identical
\* inputs, the branch being on the remote from the first run, the remote
\* accepts the push: the run does not fail with a rejected push.
C5_SecondRunPushAccepted ==
    SecondRunAfterFirst => run.pushOutcome # "non-fast-forward"

BothLabelSets(f) ==
    /\ f.exists
    /\ Has(f.data, "package")
    /\ Has(f.data.package, "labels_include_any")
    /\ Has(f.data.package, "labels_exclude_any")
    /\ f.data.package.labels_include_any # <<>>
    /\ f.data.package.labels_exclude_any # <<>>

\* Every tree there is: the work tree and the index of the clone, every
\* snapshot of its HEAD, of the base branch and of the pushed branches.
AllTrees ==
    {ws.worktree, ws.index}
    \cup {ws.head[i].tree : i \in 1..Len(ws.head)}
    \cup {remote.base[i].tree : i \in 1..Len(remote.base)}
    \cup UNION {{b.commit[i].tree : i \in 1..Len(b.commit)} : b \in remote.branches}

C10_MissingTeamFailsBeforeMutation ==
    (pc = "failed" /\ run.failedAt = "teamyaml") => run.writes = <<>>

\* A configuration error of the inputs: no token from either source, or both
\* label lists non-empty.
ConfigError(i) ==
    \/ ~i.github_token /\ ~i.env_GITHUB_TOKEN
    \/ i.labels_include_any # <<>> /\ i.labels_exclude_any # <<>>

\* C11: a run whose inputs hold a configuration error (no GitHub token from
\* the input or from the environment, or both label lists non-empty) ends
\* with a fatal error, at the inputs when the token is missing and at the
\* upload stage at the latest otherwise, and has made no network call:
\* no upload, no clone, no push, no call to the pull-request service.
C11_ConfigErrorNoNetwork ==
    ConfigError(inp) =>
        /\ run.netcalls = <<>>
        /\ pc \in {"inputs", "upload", "failed"}
        /\ pc = "failed" => run.failedAt \in {"inputs", "upload"}
        /\ Len(run.steps) >= 2 => pc = "failed"
        /\ (~inp.github_token /\ ~inp.env_GITHUB_TOKEN /\ Len(run.steps) >= 1) =>
                pc = "failed" /\ run.failedAt = "inputs"
        /\ remote.branches = {}
        /\ prs = {} /\ nprcalls = 0
        /\ ~ws.exists

\* A run with a package file and one label list, but without a token from
\* either source, has ended at the inputs.
C11_Witness ==
    /\ inp.pkg_is_file
    /\ ~inp.github_token /\ ~inp.env_GITHUB_TOKEN
    /\ inp.labels_include_any # <<>> /\ inp.labels_exclude_any = <<>>
    /\ pc = "failed" /\ run.failedAt = "inputs"
    /\ run.error = "GitHub token not provided"

\* The stages of main() in the order of its statements.
StageOrder ==
    <<"inputs", "upload", "clone", "branch", "pkgyaml", "teamyaml", "stage",
      "commit", "push", "pr">>

OutputVariables == {"fleet_title_id", "fleet_installer_id", "git_branch", "pull_request_url"}

\* C12: a fatal error at any stage aborts the run: the stages attempted are
\* those up to the failing one, in order, none of the four output variables
\* is set, and nothing further happens in the run (the only step after a
\* failure is the start of another run).
C12_FatalErrorAborts ==
    /\ [](pc = "failed" =>
            /\ run.steps = SubSeq(StageOrder, 1, Len(run.steps))
            /\ run.steps[Len(run.steps)] = run.failedAt
            /\ run.error # ""
            /\ DOMAIN run.out \cap OutputVariables = {})
    /\ [][pc = "failed" => (pc' = "inputs" /\ nrun' = nrun + 1 /\ run' = NewRun)]_vars

\* A run that committed has failed at the push.
C12_Witness ==
    /\ pc = "failed" /\ run.failedAt = "push"
    /\ run.committed
    /\ run.branch_name # ""
    /\ run.out = EmptyMap

\* Every external call the run made succeeded: the upload, every git
\* command up to the accepted push, and the creation of the pull request if
\* it was called.
AllCallsSucceeded ==
    /\ run.pushOutcome = "accepted"
    /\ nprcalls > 0 => (prLast.outcome = "return" /\ prLast.cr = Http(201))

\* C13: a run with a package file and a token in which every external call
\* succeeds ends normally with the four output variables set.
C13_SuccessSetsOutputs ==
    (inp.pkg_is_file /\ GithubToken(inp) /\ AllCallsSucceeded
     /\ Len(run.steps) = Len(StageOrder)) =>
        /\ pc = "done"
        /\ DOMAIN run.out = OutputVariables

\* C14: the temporary clone exists only between the clone and the push: it
\* is gone once the run has ended, whether normally or with a fatal error at
\* any stage, and it is gone before the pull request is opened.
C14_WorkspaceDestroyed ==
    /\ ws.exists => pc \in {"branch", "pkgyaml", "teamyaml", "stage", "commit", "push"}
    /\ pc \in {"pr", "done", "failed"} => ws = NoWs
    /\ nprcalls > 0 => ~ws.exists

\* A run that cloned, wrote both documents and staged them has failed at
\* the commit, and the clone is gone.
C14_Witness ==
    /\ pc = "failed" /\ run.failedAt = "commit"
    /\ run.writes = <<"pkgyaml", "teamyaml">>
    /\ run.steps = SubSeq(StageOrder, 1, 8)
    /\ ~ws.exists

(***************************************************************************)
(* Further properties of the pull-request publisher (SpecPR).              *)
(***************************************************************************)
CallsMade(c) == {c.calls[i] : i \in 1..Len(c.calls)}

\* C15: applying labels is best-effort: the label call is made only when
\* labels were requested and the creation answer carries the number of the
\* pull request, and however the label call ends, _open_pull_request
\* returns the URL of the pull request.
C15_LabelsBestEffort ==
    prLast.called =>
        /\ "labels" \in CallsMade(prLast) =>
                (prLast.labels # <<>> /\ prLast.cr = Http(201))
        /\ "labels" \in CallsMade(prLast) =>
                (prLast.outcome = "return" /\ prLast.ret # "")

(***************************************************************************)
(* Properties of the script's package document (SpecScript).               *)
(***************************************************************************)
\* The last ensure_pkgfile call found a non-empty document and returned.
Merged == spkgLast.called /\ spkgLast.mode = "merge" /\ spkgLast.ret = "None"

\* C16: an incremental update of a non-empty package document always sets
\* hash_sha256 and platform to the supplied values (the platform the script
\* supplies is darwin), and sets name only if the document had none.
C16_MergeRefreshesHashAndPlatform ==
    Merged =>
        LET old == IF spkgLast.before.spec = "map" THEN spkgLast.before.fields
                   ELSE EmptyMap
            new == spkgLast.after.fields
        IN  /\ Has(new, "hash_sha256") /\ new.hash_sha256 = spkgLast.hash_value
            /\ Has(new, "platform") /\ new.platform = "darwin"
            /\ Has(new, "name")
            /\ new.name = IF Has(old, "name") THEN old.name ELSE spkgLast.name

(***************************************************************************)
(* Properties of slugify (SpecSlug).                                       *)
(***************************************************************************)
\* The last application took the result of the one before it, by the same
\* function.
SluggedTwice ==
    /\ slugPrev.fn # "none"
    /\ slugLast.fn = slugPrev.fn
    /\ slugLast.arg = slugPrev.ret

\* C18: slugify is idempotent, in the processor and in the script: applied
\* to its own result it returns that result.
C18_SlugifyIdempotent ==
    SluggedTwice => slugLast.ret = slugPrev.ret

\* The processor's _slugify has turned a text with an upper-case letter, a
\* blank and a digit into a slug that holds a dash, and _slugify of that slug
\* has been computed.
C18_Witness ==
    /\ SluggedTwice
    /\ slugLast.fn = "_slugify"
    /\ slugPrev.arg = <<"S", " ", "1">>
    /\ slugPrev.ret = <<"s", "-", "1">>
    /\ slugLast.ret = <<"s", "-", "1">>

(***************************************************************************)
(* Properties of the pull-request body (SpecBody).                         *)
(***************************************************************************)
\* The link of a slug of the form owner/repo, split at its first slash.
ReleaseLinks(software_slug, version) ==
    {"https://github.com/" \o Concat(owner) \o "/" \o Concat(repo)
        \o "/releases/tag/" \o version :
        owner \in {o \in SeqsUpTo(SlugChars \ {"/"}, MaxSlugLen) :
                      \E r \in SeqsUpTo(SlugChars, MaxSlugLen) :
                          software_slug = o \o <<"/">> \o r},
        repo \in {r \in SeqsUpTo(SlugChars, MaxSlugLen) :
                     \E o \in SeqsUpTo(SlugChars \ {"/"}, MaxSlugLen) :
                         software_slug = o \o <<"/">> \o r}}

\* Every changelog line a body can hold.
ChangelogLines ==
    {"[Changelog](" \o url \o ")" :
        url \in {a.changelog_url : a \in BodyArgs}
                \cup UNION {ReleaseLinks(a.software_slug, a.version) : a \in BodyArgs}}

\* C19: the body always holds the heading line and the three metadata
\* lines; it holds a changelog line if and only if a changelog URL was given
\* or the slug contains a slash; the line links to the URL given, and
\* without one to the release tag of owner/repo on GitHub.
C19_PrBodyContents ==
    bodyCalled =>
        LET a == bodyArgs
            given == a.changelog_url \notin {None, ""}
            slash == \E i \in 1..Len(a.software_slug) : a.software_slug[i] = "/"
        IN  /\ bodyLines[1] = "### " \o a.name \o " " \o a.version
            /\ InSeq("Fleet title ID: U+006042U+0060", bodyLines)
            /\ InSeq("Fleet installer ID: U+006099U+0060", bodyLines)
            /\ InSeq("Software slug: U+0060" \o Concat(a.software_slug) \o "U+0060",
                     bodyLines)
            /\ (\E i \in 1..Len(bodyLines) : bodyLines[i] \in ChangelogLines)
                    <=> (given \/ slash)
            /\ given => InSeq("[Changelog](" \o a.changelog_url \o ")", bodyLines)
            /\ (slash /\ ~given) =>
                    \E url \in ReleaseLinks(a.software_slug, a.version) :
                        InSeq("[Changelog](" \o url \o ")", bodyLines)
            /\ body = JoinLines(bodyLines) \o "\n"

\* The body of a slug with two slashes and no changelog URL has been
\* composed: the repository part keeps the second slash.
C19_Witness ==
    /\ bodyCalled
    /\ bodyArgs.software_slug = <<"m", "/", "/">>
    /\ bodyArgs.changelog_url = ""
    /\ bodyArgs.version = "1.2.3"
    /\ InSeq("[Changelog](https://github.com/m///releases/tag/1.2.3)", bodyLines)

(***************************************************************************)
(* Properties of the commit step (SpecCommit).                             *)
(***************************************************************************)
\* The trees a repository can hold when _git_safe_commit is called in it.
CommitTrees ==
    {Tree(p, t) :
        p \in {MissingPkgFile, OldPkgFile,
               WriteOrUpdatePackageYaml(MissingPkgFile,
                                        MainPkgArgs(CHOOSE i \in Inputs : TRUE))},
        t \in {TeamDoc(TRUE, "map", "list", <<>>),
               TeamDoc(TRUE, "map", "list", <<PathEntry(RefPath(SoftwareSlug))>>)}}

\* _git_safe_commit is called in a repository in any state: HEAD, the index
\* and the work tree each hold any tree.
InitCommit ==
    /\ inp = (CHOOSE i \in Inputs : i.pkg_is_file /\ i.github_token)
    /\ \E h \in CommitTrees, i \in CommitTrees, w \in CommitTrees :
         /\ ws = [exists |-> TRUE, worktree |-> w, index |-> i,
                  head |-> <<Snapshot(h, 0, "base")>>, branch |-> BranchName(inp)]
         /\ remote = [base |-> <<Snapshot(h, 0, "base")>>, branches |-> {}]
    /\ now = 0
    /\ nrun = 1
    /\ pc = "commit"
    /\ run = [NewRun EXCEPT !.steps = SubSeq(StageOrder, 1, 7),
                            !.branch_name = BranchName(inp)]
    /\ prev = NoRun

NextCommit == GitSafeCommit

InitCommitSpec ==
    InitCommit /\ TeamIdle /\ PkgIdle /\ ScriptIdle /\ SlugIdle /\ BodyIdle /\ PrIdle

SpecCommit == InitCommitSpec /\ [][NextCommit]_vars

\* C21: unless git itself fails, the commit step creates a commit if and
\* only if staged changes exist: with nothing staged it returns without a
\* commit and without an error, whatever the work tree holds, and otherwise
\* it commits the index with the message of the run.
C21_CommitIffStaged ==
    [][pc = "commit" =>
        \/ run'.error = "git status or git commit failed"
        \/ /\ ws.index = Tip(ws.head)
           /\ pc' = "push" /\ ~run'.committed /\ ws' = ws
        \/ /\ ws.index # Tip(ws.head)
           /\ pc' = "push" /\ run'.committed
           /\ ws'.head = Append(ws.head, Snapshot(ws.index, now', CommitMsg))]_vars

(***************************************************************************)
(* Properties of the order of the stages of main() (Spec).                 *)
(***************************************************************************)
Pushes(r) == Cardinality({k \in DOMAIN r.netcalls : r.netcalls[k] = "push"})

Attempted(stage) == \E k \in DOMAIN run.steps : run.steps[k] = stage

\* C22: in every run the stages happen at most once and in the order clone,
\* branch, files written and staged, commit (made or skipped), push; a stage
\* is attempted only when every earlier one succeeded; the push follows the
\* commit step whether or not a commit was made, is attempted at most once
\* and never rewrites a branch of the remote; the pull request is attempted
\* only after an accepted push.
C22_SequencerOrder ==
    /\ [](/\ run.steps = SubSeq(StageOrder, 1, Len(run.steps))
          /\ pc = "failed" => run.steps[Len(run.steps)] = run.failedAt
          /\ pc \notin {"idle", "failed", "done"} => pc = StageOrder[Len(run.steps) + 1]
          /\ run.committed => Attempted("commit")
          /\ Pushes(run) <= 1
          /\ Pushes(run) = 1 <=> Attempted("push")
          /\ Attempted("pr") => run.pushOutcome = "accepted")
    /\ [][\A b \in remote.branches :
             \E c \in remote'.branches :
                 c.name = b.name /\ IsAncestor(b.commit, c.commit)]_vars

\* A run that skipped the commit has pushed its branch and come to the pull
\* request.
C22_Witness ==
    /\ Attempted("push") /\ ~run.committed
    /\ run.pushOutcome = "accepted"
    /\ pc = "pr"

(***************************************************************************)
(* Further properties of the team document operations (SpecTeam).          *)
(***************************************************************************)
\* The entry refers to the path in one of the two shapes: a bare string that
\* is the path, or a mapping whose path field is the path.
References(p, path) ==
    \/ p.kind = "str" /\ p.val = path
    \/ p.kind = "dict" /\ p.path = path

Present(file, path) ==
    \E i \in DOMAIN PackagesOf(file) : References(PackagesOf(file)[i], path)

\* C23: an ensure-operation recognises a reference in either shape: when the
\* document holds the reference path as a bare string or as the path field
\* of a mapping, the call does not fail and appends nothing; no other entry
\* counts as the reference, so without such an entry the call appends.
C23_BothEntryShapesAccepted ==
    Called =>
        LET old == PackagesOf(teamLast.before)
            new == PackagesOf(teamLast.after)
        IN  /\ Present(teamLast.before, teamLast.arg) =>
                    (teamLast.ret # "raise" /\ Len(new) = Len(old))
            /\ (~Present(teamLast.before, teamLast.arg) /\ teamLast.ret # "raise") =>
                    Len(new) = Len(old) + 1

(***************************************************************************)
(* Further properties of slugify (SpecSlug).                               *)
(***************************************************************************)
\* C24: slugify never returns an empty slug, in the processor and in the
\* script: the result is non-empty, holds only characters of [a-z0-9-],
\* neither starts nor ends with a dash, holds no two dashes in a row, and is
\* "software" when the lower-cased input holds no character of [a-z0-9].
C24_SlugNeverEmpty ==
    slugLast.fn # "none" =>
        LET r == slugLast.ret
            low == Lower(slugLast.arg)
        IN  /\ r # <<>>
            /\ \A k \in DOMAIN r : r[k] \in AlNum \cup {"-"}
            /\ r[1] # "-" /\ r[Len(r)] # "-"
            /\ \A k \in 1..(Len(r) - 1) : ~(r[k] = "-" /\ r[k + 1] = "-")
            /\ (\A k \in DOMAIN low : low[k] \notin AlNum) => r = DefaultSlug

(***************************************************************************)
(* Properties of the value _open_pull_request returns (SpecPR).            *)
(***************************************************************************)
\* C25: whenever _open_pull_request returns, it returns a non-empty URL of
\* a pull request for the given head and base: the one it created, or one
\* that was open when it was called; a 422 answer followed by a search that
\* fails or finds nothing does not end in a return of the empty string.
C25_ReturnsPullRequestUrl ==
    (prLast.called /\ prLast.outcome = "return") =>
        /\ prLast.ret # ""
        /\ \E n \in 1..(nextNumber - 1) : prLast.ret = PrUrl(n)
        /\ prLast.cr # Http(201) =>
                \E pr \in prLast.openBefore : prLast.ret = PrUrl(pr.number)

====
